---------------------------- MODULE Spec2Model ----------------------------
(***************************************************************************)
(* A model of src/lexer.rs: the lexer lex_str, its recogniser chain        *)
(* get_next_token / try_get, the five regular expressions and the          *)
(* line/column bookkeeping of the driver loop.                             *)
(*                                                                         *)
(* A string (&str) is a sequence of characters.  A character is written as *)
(* a one-character TLA+ string; a character outside ASCII is written by    *)
(* its code point ("U+00E9").  Lengths that the code takes with str::len   *)
(* are lengths in UTF-8 bytes (ByteLen), not in characters (Len).          *)
(***************************************************************************)
EXTENDS Integers, Sequences, FiniteSets, TLC

VARIABLES
    input,          \* the argument of lex_str
    current_input,  \* lex_str: the unconsumed remainder
    current_line,   \* lex_str: line of the cursor
    current_column, \* lex_str: column of the cursor
    result,         \* lex_str: the Vec<Lexeme> being built
    pc,             \* position in lex_str: "loop", "after_loop", "returned", "panicked"
    ret,            \* the value lex_str returned (tag "Ok" / "Err"), tag "None" before
    matches,        \* history: the (consumed_input, lexeme_kind) of every Some, in order
    iterations      \* history: number of loop bodies that took the Some branch

vars == <<input, current_input, current_line, current_column, result, pc, ret,
          matches, iterations>>

---------------------------------------------------------------------------
(* Characters *)

AsciiLower == {"a","b","c","d","e","f","g","h","i","j","k","l","m",
               "n","o","p","q","r","s","t","u","v","w","x","y","z"}
AsciiUpper == {"A","B","C","D","E","F","G","H","I","J","K","L","M",
               "N","O","P","Q","R","S","T","U","V","W","X","Y","Z"}
AsciiLetters == AsciiLower \cup AsciiUpper
AsciiDigits == {"0","1","2","3","4","5","6","7","8","9"}

\* Code points outside ASCII, by UTF-8 length.  U+0085 NEL, U+00A0 NBSP,
\* U+00E9 e-acute, U+03BB lambda, U+0663 ARABIC-INDIC DIGIT THREE;
\* U+2003 EM SPACE, U+2028 LINE SEPARATOR, U+3000 IDEOGRAPHIC SPACE,
\* U+4E2D (CJK ideograph), U+20AC EURO SIGN.
TwoByteChars == {"U+0085", "U+00A0", "U+00E9", "U+03BB", "U+0663"}
ThreeByteChars == {"U+2003", "U+2028", "U+3000", "U+4E2D", "U+20AC"}

\* char::len_utf8
Utf8Len(c) == IF c \in TwoByteChars THEN 2 ELSE IF c \in ThreeByteChars THEN 3 ELSE 1

\* str::len: the length of s in bytes
RECURSIVE ByteLen(_)
ByteLen(s) == IF s = <<>> THEN 0 ELSE Utf8Len(Head(s)) + ByteLen(Tail(s))

\* The regex crate's \s on &str is Unicode-aware: the White_Space property.
\* U+000B is the vertical tab.
PerlSpace == {" ", "\t", "\n", "\r", "\f", "U+000B",
              "U+0085", "U+00A0", "U+2003", "U+2028", "U+3000"}

\* The regex crate's \w on &str is Unicode-aware: Alphabetic, Mark,
\* Decimal_Number, Connector_Punctuation, Join_Control.
PerlWord == AsciiLetters \cup AsciiDigits \cup {"_"}
            \cup {"U+00E9", "U+03BB", "U+0663", "U+4E2D"}

\* The length of the longest prefix of s made of characters of class
LongestRun(s, class) ==
    CHOOSE n \in 0..Len(s) :
        /\ \A i \in 1..n : s[i] \in class
        /\ (n = Len(s) \/ s[n + 1] \notin class)

---------------------------------------------------------------------------
(* lazy_static patterns.  A pattern applied to a string gives the end of   *)
(* Regex::find's match (the match starts at 0, every pattern is anchored), *)
(* or NoMatch.                                                             *)

NoMatch == -1

KEYWORDS == { <<"r","e","t","u","r","n">>, <<"i","n","t">> }

\* A pattern that also matches the empty prefix: r"^\s*"
WHITESPACE_REGEX_star(s) == LongestRun(s, PerlSpace)

\* r"^\s+"
WHITESPACE_REGEX(s) ==
    LET n == LongestRun(s, PerlSpace) IN IF n >= 1 THEN n ELSE NoMatch

\* A pattern that lets an identifier start with any word character: r"^\w+"
IDENTIFIER_REGEX_word_start(s) ==
    LET n == LongestRun(s, PerlWord) IN IF n >= 1 THEN n ELSE NoMatch

\* r"^[a-zA-Z]\w*"
IDENTIFIER_REGEX(s) ==
    IF s # <<>> /\ s[1] \in AsciiLetters
    THEN 1 + LongestRun(Tail(s), PerlWord)
    ELSE NoMatch

\* r"^[0-9]+"
INT_LITERAL_REGEX(s) ==
    LET n == LongestRun(s, AsciiDigits) IN IF n >= 1 THEN n ELSE NoMatch

\* A pattern that misses the semicolon: r"^[\(\)\{\}]"
SYMBOL_REGEX_no_semicolon(s) ==
    IF s # <<>> /\ s[1] \in {"(", ")", "{", "}"} THEN 1 ELSE NoMatch

\* r"^[\(\)\{\};]"
SYMBOL_REGEX(s) ==
    IF s # <<>> /\ s[1] \in {"(", ")", "{", "}", ";"} THEN 1 ELSE NoMatch

\* r"\n([^\n]*)$" with Regex::find: the whole match, which starts AT the
\* last newline of s (the group is not what find returns); <<>> stands for
\* None and is never confused with a match, which has at least the newline.
AFTER_LAST_NEWLINE_REGEX(s) ==
    IF \E i \in 1..Len(s) : s[i] = "\n"
    THEN LET last == CHOOSE i \in 1..Len(s) :
                        s[i] = "\n" /\ \A j \in (i + 1)..Len(s) : s[j] # "\n"
         IN SubSeq(s, last, Len(s))
    ELSE <<>>

\* Regex::find(pattern, s), by the name of the pattern
RegexFind(pattern, s) ==
    CASE pattern = "WHITESPACE_REGEX" -> WHITESPACE_REGEX(s)
      [] pattern = "IDENTIFIER_REGEX" -> IDENTIFIER_REGEX(s)
      [] pattern = "SYMBOL_REGEX" -> SYMBOL_REGEX(s)
      [] pattern = "INT_LITERAL_REGEX" -> INT_LITERAL_REGEX(s)

---------------------------------------------------------------------------
(* LexemeKind and the transformers *)

\* A LexemeKind: the variant, its &str payload (Whitespace, Keyword,
\* Identifier) or its i32 payload (IntLiteral).  The tag "Panic" stands for
\* a transformer that panicked instead of returning a kind.
Kind(tag, text, value) == [tag |-> tag, text |-> text, value |-> value]

I32_MAX == 2147483647

DigitValue(c) ==
    CASE c = "0" -> 0 [] c = "1" -> 1 [] c = "2" -> 2 [] c = "3" -> 3
      [] c = "4" -> 4 [] c = "5" -> 5 [] c = "6" -> 6 [] c = "7" -> 7
      [] c = "8" -> 8 [] c = "9" -> 9

\* str::parse::<i32> on a run of ASCII digits: the decimal value, or -1 for
\* Err(PosOverflow).  Each digit is a checked multiply and a checked add:
\* acc * 10 + d overflows exactly when acc > (I32_MAX - d) / 10.
RECURSIVE parse_i32(_)
parse_i32(s) ==
    IF s = <<>> THEN 0
    ELSE LET acc == parse_i32(SubSeq(s, 1, Len(s) - 1))
             d == DigitValue(s[Len(s)])
         IN IF acc = -1 THEN -1
            ELSE IF acc > (I32_MAX - d) \div 10 THEN -1
            ELSE acc * 10 + d

\* |s| LexemeKind::Whitespace(s)
whitespace_closure(s) == Kind("Whitespace", s, 0)

\* A lookup that takes a keyword at the start of the identifier for a keyword
convert_identifier_str_by_prefix(identifier) ==
    IF \E k \in KEYWORDS : Len(k) <= Len(identifier) /\ SubSeq(identifier, 1, Len(k)) = k
    THEN Kind("Keyword", identifier, 0)
    ELSE Kind("Identifier", identifier, 0)

convert_identifier_str(identifier) ==
    IF identifier \in KEYWORDS
    THEN Kind("Keyword", identifier, 0)
    ELSE Kind("Identifier", identifier, 0)

convert_symbol_str(symbol) ==
    CASE symbol = <<"{">> -> Kind("OpenBrace", <<>>, 0)
      [] symbol = <<"}">> -> Kind("CloseBrace", <<>>, 0)
      [] symbol = <<"(">> -> Kind("OpenParen", <<>>, 0)
      [] symbol = <<")">> -> Kind("CloseParen", <<>>, 0)
      [] symbol = <<";">> -> Kind("Semicolon", <<>>, 0)
      [] OTHER -> Kind("Panic", <<>>, 0)      \* unreachable!()

\* |s| LexemeKind::IntLiteral(s.parse().unwrap()): unwrap panics on Err
int_literal_closure(s) ==
    LET v == parse_i32(s)
    IN IF v = -1 THEN Kind("Panic", <<>>, 0) ELSE Kind("IntLiteral", <<>>, v)

Transform(transformer, s) ==
    CASE transformer = "whitespace_closure" -> whitespace_closure(s)
      [] transformer = "convert_identifier_str" -> convert_identifier_str(s)
      [] transformer = "convert_symbol_str" -> convert_symbol_str(s)
      [] transformer = "int_literal_closure" -> int_literal_closure(s)

---------------------------------------------------------------------------
(* try_get and get_next_token *)

\* Option<(&str, &str, LexemeKind)>; status "Panic" when the call did not
\* return because the transformer panicked.
None == [status |-> "None", new_input |-> <<>>, matched_str |-> <<>>,
         kind |-> Kind("None", <<>>, 0)]

\* A slice that starts one character late
SliceFrom_skips_one(cur_input, end) == SubSeq(cur_input, end + 2, Len(cur_input))

\* &current_input[matched_result.end()..]
SliceFrom(cur_input, end) == SubSeq(cur_input, end + 1, Len(cur_input))

try_get(cur_input, pattern, transformer) ==
    LET end == RegexFind(pattern, cur_input)
    IN IF end # NoMatch
       THEN LET matched_str == SubSeq(cur_input, 1, end)
                new_input == SliceFrom(cur_input, end)
                kind == Transform(transformer, matched_str)
            IN [status |-> IF kind.tag = "Panic" THEN "Panic" ELSE "Some",
                new_input |-> new_input, matched_str |-> matched_str, kind |-> kind]
       ELSE None

\* Option::or_else: the closure runs only on None (a panic never returns)
or_else(first, second) == IF first.status = "None" THEN second ELSE first

get_next_token(cur_input) ==
    or_else(or_else(or_else(
        try_get(cur_input, "WHITESPACE_REGEX", "whitespace_closure"),
        try_get(cur_input, "IDENTIFIER_REGEX", "convert_identifier_str")),
        try_get(cur_input, "SYMBOL_REGEX", "convert_symbol_str")),
        try_get(cur_input, "INT_LITERAL_REGEX", "int_literal_closure"))

---------------------------------------------------------------------------
(* lex_str *)

\* consumed_input.matches("\n").count()
line_change_count(consumed_input) ==
    Cardinality({i \in 1..Len(consumed_input) : consumed_input[i] = "\n"})

\* current_line += line_change_count
advance_line(line, consumed_input) == line + line_change_count(consumed_input)

\* The if / else that updates current_column
advance_column(column, consumed_input) ==
    IF line_change_count(consumed_input) > 0
    THEN LET matched == AFTER_LAST_NEWLINE_REGEX(consumed_input)
         IN IF matched # <<>> THEN 1 + ByteLen(matched) ELSE 1
    ELSE column + ByteLen(consumed_input)

Lexeme(kind, line, column) == [kind |-> kind, line |-> line, column |-> column]

\* A loop body without the Whitespace arm: every lexeme is pushed
push_lexeme_keeps_whitespace(res, lexeme_kind, line, column) ==
    Append(res, Lexeme(lexeme_kind, line, column))

\* The match that skips over whitespace and pushes every other lexeme
push_lexeme(res, lexeme_kind, line, column) ==
    IF lexeme_kind.tag = "Whitespace"
    THEN res
    ELSE Append(res, Lexeme(lexeme_kind, line, column))

\* Result<Vec<Lexeme>, LexError>, and the value of ret before lex_str returns
NotReturned == [tag |-> "None", tokens |-> <<>>, line |-> 0, column |-> 0]
Ok(tokens) == [tag |-> "Ok", tokens |-> tokens, line |-> 0, column |-> 0]
UnrecognizedInput(line, column) ==
    [tag |-> "Err", tokens |-> <<>>, line |-> line, column |-> column]

\* The inputs: up to MaxPieces pieces, concatenated.
MaxPieces == 3

Pieces == { <<"i","n","t">>, <<"r","e","t","u","r","n">>, <<"I","n","t">>, <<"x">>,
            <<"1">>, <<"2","1","4","7","4","8","3","6","4","7">>, <<"_">>,
            <<" ">>, <<"\n">>, <<"{">>, <<";">>, <<"$">>,
            <<"U+00E9">>, <<"U+00A0">> }

RECURSIVE Concat(_)
Concat(ps) == IF ps = <<>> THEN <<>> ELSE Head(ps) \o Concat(Tail(ps))

Inputs == { Concat(ps) : ps \in UNION { [1..n -> Pieces] : n \in 0..MaxPieces } }

Init ==
    /\ input \in Inputs
    /\ current_input = input
    /\ current_line = 1
    /\ current_column = 1
    /\ result = <<>>
    /\ pc = "loop"
    /\ ret = NotReturned
    /\ matches = <<>>
    /\ iterations = 0

\* One loop body in which get_next_token returns Some
LoopSome ==
    /\ pc = "loop"
    /\ LET next_token == get_next_token(current_input)
       IN /\ next_token.status = "Some"
          /\ current_input' = next_token.new_input
          /\ result' = push_lexeme(result, next_token.kind, current_line, current_column)
          /\ current_line' = advance_line(current_line, next_token.matched_str)
          /\ current_column' = advance_column(current_column, next_token.matched_str)
          /\ matches' = Append(matches, [consumed_input |-> next_token.matched_str,
                                         kind |-> next_token.kind])
    /\ iterations' = iterations + 1
    /\ UNCHANGED <<input, pc, ret>>

\* One loop body in which get_next_token panics (unwrap of the parse error)
LoopPanic ==
    /\ pc = "loop"
    /\ get_next_token(current_input).status = "Panic"
    /\ pc' = "panicked"
    /\ UNCHANGED <<input, current_input, current_line, current_column, result, ret,
                   matches, iterations>>

\* get_next_token returns None: break
LoopBreak ==
    /\ pc = "loop"
    /\ get_next_token(current_input).status = "None"
    /\ pc' = "after_loop"
    /\ UNCHANGED <<input, current_input, current_line, current_column, result, ret,
                   matches, iterations>>

\* if !current_input.is_empty() { return Err(..) }
ReturnErr ==
    /\ pc = "after_loop"
    /\ current_input # <<>>
    /\ ret' = UnrecognizedInput(current_line, current_column)
    /\ pc' = "returned"
    /\ UNCHANGED <<input, current_input, current_line, current_column, result,
                   matches, iterations>>

\* Ok(result)
ReturnOk ==
    /\ pc = "after_loop"
    /\ current_input = <<>>
    /\ ret' = Ok(result)
    /\ pc' = "returned"
    /\ UNCHANGED <<input, current_input, current_line, current_column, result,
                   matches, iterations>>

Next == LoopSome \/ LoopPanic \/ LoopBreak \/ ReturnErr \/ ReturnOk

Spec == Init /\ [][Next]_vars

---------------------------------------------------------------------------
(* Vocabulary of the properties *)

Finished == pc \in {"returned", "panicked"}

\* The text of all spans matched so far, in order
ConsumedText == Concat([j \in 1..Len(matches) |-> matches[j].consumed_input])

\* Number of characters of the input before character number n + 1 that
\* are newlines, plus one: the line of that character
TrueLine(n) == 1 + Cardinality({i \in 1..n : input[i] = "\n"})

\* The column of character number n + 1 of the input, in characters, the
\* character after a newline (or the first of the input) being at column 1
TrueColumn(n) ==
    LET newlines == {i \in 1..n : input[i] = "\n"}
        last == IF newlines = {} THEN 0
                ELSE CHOOSE i \in newlines : \A j \in newlines : j <= i
    IN n - last + 1

\* The index in matches of the k-th match that is not whitespace
TokenMatch(k) ==
    CHOOSE j \in 1..Len(matches) :
        /\ matches[j].kind.tag # "Whitespace"
        /\ Cardinality({i \in 1..j : matches[i].kind.tag # "Whitespace"}) = k

\* Number of characters of the input consumed before match number j
ConsumedBefore(j) ==
    Len(Concat([i \in 1..(j - 1) |-> matches[i].consumed_input]))

\* Only characters of the recognised classes: whitespace, ASCII letters,
\* ASCII digits, the five symbols, and underscores that follow a letter
RecognizedOnly(s) ==
    \A i \in 1..Len(s) :
        \/ s[i] \in PerlSpace \cup AsciiLetters \cup AsciiDigits
        \/ s[i] \in {"{", "}", "(", ")", ";"}
        \/ s[i] = "_" /\ i > 1 /\ s[i - 1] \in AsciiLetters

---------------------------------------------------------------------------
(* Positions *)

\* Every character of the input is one byte long
SingleByte == \A i \in 1..Len(input) : Utf8Len(input[i]) = 1

\* C1: when lex_str succeeds, every token's (line, column) is the position
\* of the token's first character in the input, lines and columns counted
\* from 1 and the character after a newline being at column 1.  Stated for
\* the inputs of one-byte characters, where a count of bytes and a count
\* of characters agree.
C1_TokenPositions ==
    (ret.tag = "Ok" /\ SingleByte) =>
        \A k \in 1..Len(ret.tokens) :
            LET start == ConsumedBefore(TokenMatch(k))
            IN /\ ret.tokens[k].line = TrueLine(start)
               /\ ret.tokens[k].column = TrueColumn(start)

\* C2: when lex_str fails, the UnrecognizedInput it returns carries the
\* position of the first character of the remainder, also after newlines.
\* Stated for the inputs of one-byte characters, as C1.
C2_ErrorPosition ==
    (ret.tag = "Err" /\ SingleByte) =>
        LET start == Len(input) - Len(current_input)
        IN /\ ret.line = TrueLine(start)
           /\ ret.column = TrueColumn(start)

---------------------------------------------------------------------------
(* Outcomes *)

\* C3: lex_str ends by returning Ok(tokens) or Err(UnrecognizedInput); it
\* never ends any other way, also on digit runs above 2147483647.
C3_TwoOutcomes == Finished => ret.tag \in {"Ok", "Err"}

---------------------------------------------------------------------------
(* Coverage of the input *)

\* C5: at every iteration the spans matched so far, in order, followed by
\* the remainder are the input; on success the spans alone are the input.
C5_RoundTrip ==
    /\ ConsumedText \o current_input = input
    /\ ret.tag = "Ok" => ConsumedText = input

C5_Witness ==
    /\ ret.tag = "Ok"
    /\ Len(matches) >= 3
    /\ \E i, j \in 1..Len(matches) :
          /\ matches[i].kind.tag = "Whitespace"
          /\ matches[j].kind.tag # "Whitespace"
          /\ Len(matches[j].consumed_input) > 1

\* C6: no Lexeme of the output is a Whitespace; a whitespace match moves the
\* cursor and the remainder and appends nothing, every other match appends
\* exactly one Lexeme.
NoWhitespaceLexeme ==
    /\ \A k \in 1..Len(result) : result[k].kind.tag # "Whitespace"
    /\ \A k \in 1..Len(ret.tokens) : ret.tokens[k].kind.tag # "Whitespace"

MatchEffect ==
    iterations' = iterations + 1 =>
        IF get_next_token(current_input).kind.tag = "Whitespace"
        THEN /\ result' = result
             /\ <<current_line', current_column'>> # <<current_line, current_column>>
             /\ current_input' # current_input
        ELSE /\ Len(result') = Len(result) + 1
             /\ SubSeq(result', 1, Len(result)) = result

C6_WhitespaceDropped == []NoWhitespaceLexeme /\ [][MatchEffect]_vars

C6_Witness ==
    /\ ret.tag = "Ok"
    /\ Len(ret.tokens) = 2
    /\ \E j \in 1..Len(matches) : matches[j].kind.tag = "Whitespace"

---------------------------------------------------------------------------
(* Recognisers *)

\* C7: a span matched by the identifier rule becomes Keyword(span) exactly
\* when the whole span is "return" or "int", and Identifier(span) otherwise.
C7_KeywordPartition ==
    \A j \in 1..Len(matches) :
        LET span == matches[j].consumed_input
        IN span[1] \in AsciiLetters =>
              matches[j].kind =
                  IF span = <<"r","e","t","u","r","n">> \/ span = <<"i","n","t">>
                  THEN Kind("Keyword", span, 0)
                  ELSE Kind("Identifier", span, 0)

C7_Witness ==
    /\ ret.tag = "Ok"
    /\ \E i, j \in 1..Len(ret.tokens) :
          /\ ret.tokens[i].kind = Kind("Keyword", <<"i","n","t">>, 0)
          /\ ret.tokens[j].kind = Kind("Identifier", <<"I","n","t">>, 0)

\* Steps lex_str has left at most: two to return once the loop is left,
\* one loop body for each character of the remainder before that
StepsLeft ==
    CASE pc = "loop" -> Len(current_input) + 2
      [] pc = "after_loop" -> 1
      [] OTHER -> 0

\* C8: every match consumes at least one character, so the remainder
\* shrinks in every iteration and the loop runs at most Len(input)
\* iterations; every step of lex_str lowers StepsLeft, which is never
\* negative, so lex_str ends.
C8_Termination ==
    /\ [](/\ \A j \in 1..Len(matches) : Len(matches[j].consumed_input) >= 1
          /\ Len(matches) = iterations
          /\ iterations + Len(current_input) <= Len(input)
          /\ StepsLeft = 0 <=> Finished)
    /\ [][/\ StepsLeft' < StepsLeft
          /\ iterations' = iterations + 1 => Len(current_input') < Len(current_input)]_vars

C8_Witness ==
    /\ Finished
    /\ iterations = 3
    /\ Len(input) > 3

\* The four recognisers of get_next_token, tried in the given order
Recognizer(r, s) ==
    CASE r = 1 -> try_get(s, "WHITESPACE_REGEX", "whitespace_closure")
      [] r = 2 -> try_get(s, "IDENTIFIER_REGEX", "convert_identifier_str")
      [] r = 3 -> try_get(s, "SYMBOL_REGEX", "convert_symbol_str")
      [] r = 4 -> try_get(s, "INT_LITERAL_REGEX", "int_literal_closure")

\* The orders in which four recognisers can be tried
Orders == Permutations(1..4)

\* What the chain of or_else gives when the recognisers, whose results on
\* one string are r[1] .. r[4], are tried in the given order
TryInOrder(order, r) ==
    or_else(or_else(or_else(r[order[1]], r[order[2]]), r[order[3]]), r[order[4]])

\* C9: get_next_token gives what the first matching recogniser of the order
\* whitespace, identifier, symbol, integer gives; at most one recogniser
\* matches, so every order gives the same; and it gives None exactly when
\* the remainder is empty or starts with no character of the four rules.
\* Checked on the remainder of every state.
C9_RecognizerOrder ==
    LET s == current_input
        r == <<Recognizer(1, s), Recognizer(2, s), Recognizer(3, s), Recognizer(4, s)>>
        token == get_next_token(s)
    IN /\ token = TryInOrder(<<1, 2, 3, 4>>, r)
       /\ Cardinality({i \in 1..4 : r[i].status # "None"}) <= 1
       /\ \A order \in Orders : TryInOrder(order, r) = token
       /\ token.status = "None" <=>
             \/ s = <<>>
             \/ s[1] \notin PerlSpace \cup AsciiLetters \cup AsciiDigits
                            \cup {"{", "}", "(", ")", ";"}

C9_Witness ==
    /\ pc = "after_loop"
    /\ current_input # <<>>
    /\ {matches[j].kind.tag : j \in 1..Len(matches)} = {"Whitespace", "IntLiteral"}

\* C10: the text of every Identifier and Keyword is made of ASCII letters,
\* ASCII digits and underscores only: a character outside ASCII after an
\* identifier stays in the remainder.
C10_AsciiIdentifiers ==
    \A j \in 1..Len(matches) :
        matches[j].kind.tag \in {"Identifier", "Keyword"} =>
            \A i \in 1..Len(matches[j].consumed_input) :
                matches[j].consumed_input[i] \in AsciiLetters \cup AsciiDigits \cup {"_"}

===========================================================================
